---- MODULE Spec2Model ----
(***************************************************************************)
(* A model of the market-server backend: the auth routes (register,       *)
(* login), the product routes with image upload (three variants of the    *)
(* router are present in the repository) and the cart total.              *)
(*                                                                         *)
(* Requests are handled concurrently: a request occupies a slot of reqs   *)
(* and advances from one await point of its handler to the next.  The     *)
(* database and the filesystem are assumed to be up: a database write     *)
(* fails only for a reason in the data (a price that does not cast to a   *)
(* number, a duplicate key) and fs.unlink fails only with ENOENT.         *)
(***************************************************************************)
EXTENDS Integers, Sequences, FiniteSets, TLC

VARIABLES router, users, products, files, nextFile, nextProduct, reqs, cart, total

vars == <<router, users, products, files, nextFile, nextProduct, reqs, cart, total>>

(***************************************************************************)
(* Bounds of the model.                                                    *)
(***************************************************************************)
MaxReq == 2
MaxProducts == 2
MaxFiles == 3
MaxItems == 2
MaxQty == 2

Reqs == 1..MaxReq

(***************************************************************************)
(* Strings whose characters matter (emails, passwords) are sequences of   *)
(* one-character strings; the empty sequence is the missing (falsy) field. *)
(***************************************************************************)
LowerChar(c) ==
  CASE c = "S" -> "s"
    [] c = "B" -> "b"
    [] c = "X" -> "x"
    [] c = "I" -> "i"
    [] c = "O" -> "o"
    [] OTHER -> c

toLowerCase(s) == [i \in DOMAIN s |-> LowerChar(s[i])]

IsSpace(c) == c = " "

\* /^[^\s@]+@[^\s@]+\.[^\s@]+$/ : one "@", no whitespace, and after the "@" a
\* "." with at least one character on each side of it.
emailRegexTest(s) ==
  /\ \A i \in DOMAIN s : ~IsSpace(s[i])
  /\ Cardinality({i \in DOMAIN s : s[i] = "@"}) = 1
  /\ \E i \in DOMAIN s :
       /\ s[i] = "@"
       /\ i > 1
       /\ \E j \in DOMAIN s : s[j] = "." /\ j > i + 1 /\ j < Len(s)

MinPasswordLength == 6

Falsy(s) == s = <<>>

(***************************************************************************)
(* Identifiers.  ObjectIds are positive integers, 0 stands for null.      *)
(***************************************************************************)
NoUser == 0
NoFile == 0
NoProduct == 0

\* ObjectId.prototype.toString(): the hex string of the id.
IdToString(id) == <<"hex", id>>

\* jwt.sign({ id: user._id }, secret, { expiresIn: '30d' })
SignToken(id) == <<"jwt", id>>

(***************************************************************************)
(* The User model (its schema is not among the sources): the email is     *)
(* lower-cased by the schema both when saved and when cast in a query, it *)
(* is unique, and the password is stored as a one-way hash.               *)
(***************************************************************************)
CastEmail(email) == toLowerCase(email)

HashPassword(password) == <<"hash", password>>

comparePassword(user, candidate) == HashPassword(candidate) = user.password

FindUsersByEmail(email) == {u \in users : u.email = CastEmail(email)}

StrippedUser(u) ==
  [id |-> u.id, name |-> u.name, email |-> u.email, role |-> u.role,
   storeInfo |-> u.storeInfo]

(***************************************************************************)
(* Responses: a status, the message of an error body, and the records of  *)
(* a success body (as a set, empty for an error).                         *)
(***************************************************************************)
Response(status, message, body) ==
  [status |-> status, message |-> message, body |-> body]

NoResponse == Response(0, "", {})

(***************************************************************************)
(* Request bodies.  One record shape serves every route; a route reads    *)
(* the fields it uses.  "" and <<>> are missing fields, NaNPrice is a     *)
(* price that does not convert to a number.                               *)
(***************************************************************************)
NaNPrice == -1

\* Number(s) of a request field: the number a numeric string denotes, NaN otherwise.
Number(s) ==
  CASE s = "1" -> 1
    [] s = "2" -> 2
    [] OTHER -> NaNPrice

\* Mongoose's cast to a Number path, of a string and of a number: a numeric
\* string casts to its number; NaN and a non-numeric string are a CastError,
\* written NaNPrice here.
CastString(s) == Number(s)

CastNumber(n) == n

Chars(s1, s2, s3, s4, s5, s6) == <<s1, s2, s3, s4, s5, s6>>

EmailS == Chars("s", "@", "x", ".", "i", "o")
EmailSUpper == Chars("S", "@", "X", ".", "I", "O")
EmailB == Chars("b", "@", "x", ".", "i", "o")
EmailNoDot == <<"s", "@", "x">>
Secret == Chars("s", "e", "c", "r", "e", "t")
Hunter == Chars("h", "u", "n", "t", "e", "r")
Short == <<"a", "b", "c">>

AuthBody(email, password, name, role, storeInfo) ==
  [email |-> email, password |-> password, name |-> name, role |-> role,
   storeInfo |-> storeInfo, description |-> "", price |-> ""]

ProductBody(name, description, price) ==
  [email |-> <<>>, password |-> <<>>, name |-> name, role |-> "",
   storeInfo |-> "", description |-> description, price |-> price]

NoBody == ProductBody("", "", "")

PostBodies == {ProductBody("Mug", "blue", "1"), ProductBody("Mug", "blue", "abc")}

\* The body of an update may carry any field; seller is one that updateData
\* does not pick.
PutBody(name, description, price, seller) ==
  [email |-> <<>>, password |-> <<>>, name |-> name, role |-> "",
   storeInfo |-> "", description |-> description, price |-> price,
   seller |-> seller]

PutBodies ==
  {PutBody("Cup", "red", price, seller) : price \in {"2", "abc"}, seller \in {1, 2}}

RegisterBodies ==
  { AuthBody(EmailS, Secret, "Ann", "seller", "AnnShop"),
    AuthBody(EmailSUpper, Hunter, "Eve", "user", ""),
    AuthBody(EmailB, Secret, "Bob", "user", ""),
    AuthBody(EmailB, Secret, "", "user", ""),
    AuthBody(EmailNoDot, Secret, "Ann", "user", ""),
    AuthBody(EmailB, Short, "Bob", "user", ""),
    AuthBody(EmailB, Secret, "Bob", "admin", ""),
    AuthBody(EmailB, Secret, "Bob", "seller", "") }

LoginBodies ==
  { AuthBody(e, p, "", "", "") :
      e \in {EmailS, EmailSUpper, EmailB, <<>>}, p \in {Secret, Hunter, <<>>} }

(***************************************************************************)
(* A request in flight: the route (kind), the await point it has reached  *)
(* (pc), what the middleware attached to it (user, file), the product id  *)
(* of its path, the body of an auth request,                              *)
(* the fs.unlink calls it has issued whose callbacks have not run yet      *)
(* (unlinks), and the response once sent.                                 *)
(***************************************************************************)
NoImage == <<>>

Request(kind, pc, user, id, body, file, unlinks, res) ==
  [kind |-> kind, pc |-> pc, user |-> user, id |-> id, body |-> body,
   file |-> file, unlinks |-> unlinks, res |-> res]

Idle == Request("none", "idle", NoUser, NoProduct, NoBody, NoFile, {}, NoResponse)

\* A slot takes a new request once the previous one has been answered and
\* its cleanup callbacks have run.
Free(r) == reqs[r].pc \in {"idle", "done"} /\ reqs[r].unlinks = {}

Respond(req, status, message, body) ==
  [req EXCEPT !.pc = "done", !.res = Response(status, message, body)]

(***************************************************************************)
(* POST /register                                                          *)
(***************************************************************************)
NewUser(body) ==
  [id |-> Cardinality(users) + 1,
   email |-> CastEmail(body.email),
   password |-> HashPassword(body.password),
   name |-> body.name,
   role |-> body.role,
   storeInfo |-> IF body.role = "seller" THEN body.storeInfo ELSE ""]

\* A register handler that does not look the email up.
UserExists_unchecked(found) == FALSE

\* if (user) return 400 'User already exists'
UserExists(found) == found # {}

RegisterValidate(body) ==
  LET req == Request("register", "save", NoUser, NoProduct, body, NoFile, {},
                     NoResponse)
  IN  IF Falsy(body.email) \/ Falsy(body.password) \/ body.name = ""
        THEN Respond(req, 400, "Please provide all required fields", {})
      ELSE IF ~emailRegexTest(body.email)
        THEN Respond(req, 400, "Please provide a valid email address", {})
      ELSE IF Len(body.password) < MinPasswordLength
        THEN Respond(req, 400, "Password must be at least 6 characters long", {})
      ELSE IF UserExists(FindUsersByEmail(body.email))
        THEN Respond(req, 400, "User already exists", {})
      ELSE IF body.role \notin {"user", "seller"}
        THEN Respond(req, 400, "Invalid role specified", {})
      ELSE IF body.role = "seller" /\ body.storeInfo = ""
        THEN Respond(req, 400, "Store information is required for sellers", {})
      ELSE req

\* The handler up to its call of user.save(): the validations, the lookup
\* User.findOne({ email }) and the checks that follow it.
Register(r, body) ==
  /\ Free(r)
  /\ reqs' = [reqs EXCEPT ![r] = RegisterValidate(body)]
  /\ UNCHANGED <<router, users, products, files, nextFile, nextProduct, cart, total>>

\* await user.save(): the unique index on email rejects a duplicate, which
\* the handler's catch answers with 500.
RegisterSave(r) ==
  /\ reqs[r].kind = "register"
  /\ reqs[r].pc = "save"
  /\ LET user == NewUser(reqs[r].body)
     IN  IF FindUsersByEmail(reqs[r].body.email) # {}
           THEN /\ reqs' = [reqs EXCEPT ![r] =
                      Respond(@, 500, "Server error during registration", {})]
                /\ users' = users
           ELSE /\ users' = users \cup {user}
                /\ reqs' = [reqs EXCEPT ![r] = Respond(@, 201, "",
                      {[token |-> SignToken(user.id), user |-> StrippedUser(user)]})]
  /\ UNCHANGED <<router, products, files, nextFile, nextProduct, cart, total>>

(***************************************************************************)
(* POST /login.  The handler reads the database once (findOne); the       *)
(* password comparison that follows reads nothing shared, so the handler  *)
(* is one step.  comparePassword does not throw on string inputs, so the  *)
(* 500 'Error verifying credentials' branch is not taken.                 *)
(***************************************************************************)
\* A login that tells the client the account does not exist.
UserNotFound_leaky(req) == Respond(req, 404, "User not found", {})

\* if (!user) return 400 'Invalid credentials'
UserNotFound(req) == Respond(req, 400, "Invalid credentials", {})

\* if (!isMatch) return 400 'Invalid credentials'
PasswordMismatch(req) == Respond(req, 400, "Invalid credentials", {})

LoginResponse(body) ==
  LET req == Request("login", "done", NoUser, NoProduct, body, NoFile, {},
                     NoResponse)
      found == FindUsersByEmail(toLowerCase(body.email))
  IN  IF Falsy(body.email) \/ Falsy(body.password)
        THEN Respond(req, 400, "Please provide email and password", {})
      ELSE IF found = {}
        THEN UserNotFound(req)
      ELSE LET user == CHOOSE u \in found : TRUE
           IN  IF ~comparePassword(user, body.password)
                 THEN PasswordMismatch(req)
               ELSE Respond(req, 200, "",
                      {[token |-> SignToken(user.id), user |-> StrippedUser(user)]})

Login(r, body) ==
  /\ Free(r)
  /\ reqs' = [reqs EXCEPT ![r] = LoginResponse(body)]
  /\ UNCHANGED <<router, users, products, files, nextFile, nextProduct, cart, total>>

(***************************************************************************)
(* The auth routes on an empty database.                                   *)
(***************************************************************************)
InitAuth ==
  /\ router = "products"
  /\ users = {}
  /\ products = {}
  /\ files = {}
  /\ nextFile = 1
  /\ nextProduct = 1
  /\ reqs = [r \in Reqs |-> Idle]
  /\ cart = <<>>
  /\ total = 0

NextAuth ==
  \/ \E r \in Reqs, body \in RegisterBodies : Register(r, body)
  \/ \E r \in Reqs : RegisterSave(r)
  \/ \E r \in Reqs, body \in LoginBodies : Login(r, body)

SpecAuth == InitAuth /\ [][NextAuth]_vars

(***************************************************************************)
(* The product routes.  The repository holds three variants of the        *)
(* router: routes/products.js, which server.js mounts, and two more in    *)
(* one unnamed file; router says which one serves the requests.  What a   *)
(* product request carries (the upload, the :id, the body) is drawn at    *)
(* the step of the handler that first reads it: nothing before that step  *)
(* depends on it.                                                         *)
(***************************************************************************)
Routers == {"products", "part_001_a", "part_001_b"}

\* The Product model (its schema is not among the sources): store is a
\* nested { id, name }, seller an ObjectId, price a Number, image a String.
NewProduct(id, name, description, price, image, user) ==
  [id |-> id, name |-> name, description |-> description, price |-> price,
   image |-> image, seller |-> user.id,
   store |-> [id |-> user.id,
              name |-> IF user.name = "" THEN "Unknown Seller" ELSE user.name]]

\* Requests are told apart by what they carry, not by their slot: a new
\* request takes the first free slot.
FirstFree(r) == Free(r) /\ \A q \in Reqs : q < r => ~Free(q)

\* toString() of the nested store object: its inspection, never a hex id.
StoreToString(store) == <<"inspect", store.id, store.name>>

findById(id) == {p \in products : p.id = id}

UserById(id) == CHOOSE u \in users : u.id = id

\* `/uploads/${req.file.filename}`
imageUrl(file) == <<"/uploads", file>>

\* path.join(__dirname, '..', product.image.replace('/api/products', '')): the
\* file of the upload directory that the reference names.
imagePath(image) == image[2]

\* multer's fileFilter: only an image passes.
fileFilter(upload) == upload = "png"

(***************************************************************************)
(* protect (the middleware is not among the sources): a request without a *)
(* valid token of an existing user is answered 401 and goes no further    *)
(* along its route; otherwise req.user is the token's user.  The token,   *)
(* like the rest of what a request carries, is drawn where it is read.    *)
(***************************************************************************)
TokenValid(token) == \E u \in users : u.id = token

\* A route whose upload middleware comes before its token verification.
Route_uploadFirst(kind) ==
  IF kind \in {"post", "put"} THEN <<"upload", "protect", "handler">>
  ELSE <<"protect", "handler">>

\* The middleware chain of each product route that takes a token:
\* router.post('/', protect, upload.single('image'), handler), the same for
\* put, and router.delete('/:id', protect, handler), the same for my-store.
Route(kind) ==
  IF kind \in {"post", "put"} THEN <<"protect", "upload", "handler">>
  ELSE <<"protect", "handler">>

\* next(): the stage of the route that follows the given one.
StageAfter(kind, stage) ==
  Route(kind)[(CHOOSE i \in DOMAIN Route(kind) : Route(kind)[i] = stage) + 1]

ProductKinds == {"post", "put", "delete", "mystore"}

\* A request arrives at the first middleware of its route.
Arrive(r, kind) ==
  /\ FirstFree(r)
  /\ reqs' = [reqs EXCEPT ![r] =
        Request(kind, Head(Route(kind)), NoUser, NoProduct, NoBody, NoFile, {},
                NoResponse)]
  /\ UNCHANGED <<router, users, products, files, nextFile, nextProduct, cart, total>>

Protect(r, token) ==
  /\ reqs[r].pc = "protect"
  /\ reqs' = [reqs EXCEPT ![r] =
        IF TokenValid(token)
          THEN [@ EXCEPT !.user = token, !.pc = StageAfter(reqs[r].kind, "protect")]
          ELSE Respond(@, 401, "Not authorized", {})]
  /\ UNCHANGED <<router, users, products, files, nextFile, nextProduct, cart, total>>

\* upload.single('image'): stores the image under a fresh name and sets
\* req.file; a file the filter rejects is an error, which the error
\* middleware of server.js answers with 500.
Upload(r, upload) ==
  /\ reqs[r].pc = "upload"
  /\ IF upload = "none"
       THEN /\ reqs' = [reqs EXCEPT ![r].pc = StageAfter(reqs[r].kind, "upload")]
            /\ UNCHANGED <<files, nextFile>>
     ELSE IF ~fileFilter(upload)
       THEN /\ reqs' = [reqs EXCEPT ![r] = Respond(@, 500, "Something went wrong!", {})]
            /\ UNCHANGED <<files, nextFile>>
     ELSE /\ nextFile <= MaxFiles
          /\ files' = files \cup {nextFile}
          /\ nextFile' = nextFile + 1
          /\ reqs' = [reqs EXCEPT ![r].pc = StageAfter(reqs[r].kind, "upload"),
                                    ![r].file = nextFile]
  /\ UNCHANGED <<router, users, products, nextProduct, cart, total>>

(***************************************************************************)
(* POST /products                                                          *)
(***************************************************************************)
\* routes/products.js has no role check.
PostRoleRejected_products(user) == FALSE

\* if (req.user.role !== 'seller') return 403
PostRoleRejected_part_001(user) == user.role # "seller"

PostRoleRejected(user) ==
  IF router = "products" THEN PostRoleRejected_products(user)
  ELSE PostRoleRejected_part_001(user)

\* A catch of the create handler that leaves the stored file behind.
PostCatchUnlinks_none(file) == {}

\* The catch of the create handler: fs.unlink(req.file.path) if a file was stored.
PostCatchUnlinks(file) == IF file # NoFile THEN {file} ELSE {}

\* message: error.message in routes/products.js, a fixed text in the variants.
PostErrorMessage ==
  IF router = "products" THEN "Cast to Number failed" ELSE "Error creating product"

PostHandler(r, body) ==
  /\ reqs[r].kind = "post"
  /\ reqs[r].pc = "handler"
  /\ LET req == reqs[r]
         user == UserById(req.user)
         price == Number(body.price)
         product == NewProduct(nextProduct, body.name, body.description,
                               price, imageUrl(req.file), user)
     IN  IF PostRoleRejected(user)
           THEN /\ reqs' = [reqs EXCEPT ![r] =
                      Respond(@, 403, "Only sellers can create products", {})]
                /\ UNCHANGED <<products, nextProduct>>
         ELSE IF req.file = NoFile
           THEN /\ reqs' = [reqs EXCEPT ![r] =
                      Respond(@, 400, "Please upload an image", {})]
                /\ UNCHANGED <<products, nextProduct>>
         ELSE IF CastNumber(price) = NaNPrice
           THEN \* product.save() throws
                /\ reqs' = [reqs EXCEPT ![r] =
                      [Respond(@, 500, PostErrorMessage, {})
                         EXCEPT !.unlinks = PostCatchUnlinks(req.file)]]
                /\ UNCHANGED <<products, nextProduct>>
         ELSE /\ nextProduct <= MaxProducts
              /\ products' = products \cup {product}
              /\ nextProduct' = nextProduct + 1
              /\ reqs' = [reqs EXCEPT ![r] = Respond(@, 201, "", {product})]
  /\ UNCHANGED <<router, users, files, nextFile, cart, total>>

(***************************************************************************)
(* PUT /products/:id                                                       *)
(***************************************************************************)
\* if (product.store.toString() !== req.user._id.toString()) return 403
PutNotAuthorized_products(product, userId) ==
  StoreToString(product.store) # IdToString(userId)

\* if (product.seller.toString() !== req.user._id.toString()) return 403
PutNotAuthorized_part_001_b(product, userId) ==
  IdToString(product.seller) # IdToString(userId)

PutNotAuthorized(product, userId) ==
  IF router = "part_001_b" THEN PutNotAuthorized_part_001_b(product, userId)
  ELSE PutNotAuthorized_products(product, userId)

\* The unlink of the old image that the update handler issues before its
\* database write, when a new image came with the request.
OldImageUnlinks(product, file) ==
  IF file # NoFile /\ product.image # NoImage THEN {imagePath(product.image)} ELSE {}

PutForbiddenMessage ==
  IF router = "part_001_b" THEN "Not authorized to update this product"
  ELSE "Not authorized"

PutErrorMessage ==
  IF router = "part_001_b" THEN "Error updating product" ELSE "Server error"

\* The handler up to its call of findByIdAndUpdate.
PutHandler(r, id) ==
  /\ reqs[r].kind = "put"
  /\ reqs[r].pc = "handler"
  /\ LET req == [reqs[r] EXCEPT !.id = id]
         found == findById(id)
     IN  IF found = {}
           THEN reqs' = [reqs EXCEPT ![r] = Respond(req, 404, "Product not found", {})]
         ELSE LET product == CHOOSE p \in found : TRUE
              IN  IF PutNotAuthorized(product, req.user)
                    THEN reqs' = [reqs EXCEPT ![r] = Respond(req, 403, PutForbiddenMessage, {})]
                  ELSE reqs' = [reqs EXCEPT ![r] =
                                  [req EXCEPT !.pc = "dbwrite",
                                              !.unlinks = OldImageUnlinks(product, req.file)]]
  /\ UNCHANGED <<router, users, products, files, nextFile, nextProduct, cart, total>>

\* price: req.body.price, cast by the update
UpdatePrice_products(body) == CastString(body.price)

\* price: Number(req.body.price)
UpdatePrice_part_001_b(body) == CastNumber(Number(body.price))

UpdatePrice(body) ==
  IF router = "part_001_b" THEN UpdatePrice_part_001_b(body)
  ELSE UpdatePrice_products(body)

\* An update that hands the whole request body to findByIdAndUpdate.
ApplyUpdate_wholeBody(product, body, file) ==
  [product EXCEPT !.name = body.name,
                  !.description = body.description,
                  !.price = UpdatePrice(body),
                  !.seller = body.seller,
                  !.image = IF file # NoFile THEN imageUrl(file) ELSE @]

\* updateData applied to the stored document; image only if a file came.
ApplyUpdate(product, body, file) ==
  [product EXCEPT !.name = body.name,
                  !.description = body.description,
                  !.price = UpdatePrice(body),
                  !.image = IF file # NoFile THEN imageUrl(file) ELSE @]

\* The catch of the update handler: only the second variant of the unnamed
\* file unlinks the new upload.
PutCatchUnlinks(file) ==
  IF router = "part_001_b" /\ file # NoFile THEN {file} ELSE {}

(***************************************************************************)
(* DELETE /products/:id                                                    *)
(***************************************************************************)
\* A delete handler without the ownership check.
DeleteNotAuthorized_never(product, userId) == FALSE

\* if (product.store.toString() !== req.user._id.toString()) return 403
DeleteNotAuthorized(product, userId) ==
  StoreToString(product.store) # IdToString(userId)

ImageUnlinks(product) ==
  IF product.image # NoImage THEN {imagePath(product.image)} ELSE {}

\* The handler up to its call of product.remove().
DeleteHandler(r, id) ==
  /\ reqs[r].kind = "delete"
  /\ reqs[r].pc = "handler"
  /\ LET req == [reqs[r] EXCEPT !.id = id]
         found == findById(id)
     IN  IF found = {}
           THEN reqs' = [reqs EXCEPT ![r] = Respond(req, 404, "Product not found", {})]
         ELSE LET product == CHOOSE p \in found : TRUE
              IN  IF DeleteNotAuthorized(product, req.user)
                    THEN reqs' = [reqs EXCEPT ![r] = Respond(req, 403, "Not authorized", {})]
                  ELSE reqs' = [reqs EXCEPT ![r] =
                                  [req EXCEPT !.pc = "dbwrite",
                                              !.unlinks = ImageUnlinks(product)]]
  /\ UNCHANGED <<router, users, products, files, nextFile, nextProduct, cart, total>>

(***************************************************************************)
(* The database write a handler awaits: findByIdAndUpdate of an update,   *)
(* product.remove() of a delete.                                           *)
(***************************************************************************)
DbWrite(r, body) ==
  /\ reqs[r].pc = "dbwrite"
  /\ LET req == reqs[r]
         found == findById(req.id)
     IN  IF req.kind = "delete"
           THEN /\ products' = products \ found
                /\ reqs' = [reqs EXCEPT ![r] = Respond(@, 200, "Product removed", {})]
         ELSE IF UpdatePrice(body) = NaNPrice
           THEN \* the cast of updateData throws
                /\ products' = products
                /\ reqs' = [reqs EXCEPT ![r] =
                      [Respond(@, 500, PutErrorMessage, {})
                         EXCEPT !.unlinks = @ \cup PutCatchUnlinks(req.file)]]
         ELSE LET updated == {ApplyUpdate(p, body, req.file) : p \in found}
              IN  /\ products' = (products \ found) \cup updated
                  /\ reqs' = [reqs EXCEPT ![r] = Respond(@, 200, "", updated)]
  /\ UNCHANGED <<router, users, files, nextFile, nextProduct, cart, total>>

\* The callback of an fs.unlink the request issued: the file is gone (or
\* was gone already, which is logged).
Unlink(r, f) ==
  /\ f \in reqs[r].unlinks
  /\ files' = files \ {f}
  /\ reqs' = [reqs EXCEPT ![r].unlinks = @ \ {f}]
  /\ UNCHANGED <<router, users, products, nextFile, nextProduct, cart, total>>

(***************************************************************************)
(* GET /products and GET /products/my-store                                *)
(***************************************************************************)
\* Product.find()
listAll == products

\* A query whose filter names no path of the schema, and so matches all.
listByStore_all(userId) == products

\* Product.find({ 'store.id': req.user._id })
listByStore(userId) == {p \in products : p.store.id = userId}

MyStoreHandler(r) ==
  /\ reqs[r].kind = "mystore"
  /\ reqs[r].pc = "handler"
  /\ reqs' = [reqs EXCEPT ![r] = Respond(@, 200, "", listByStore(reqs[r].user))]
  /\ UNCHANGED <<router, users, products, files, nextFile, nextProduct, cart, total>>

(***************************************************************************)
(* The product routes over a database of two registered users, a seller   *)
(* and a buyer, as register leaves them.                                  *)
(***************************************************************************)
SeedUsers ==
  { [id |-> 1, email |-> EmailS, password |-> HashPassword(Secret), name |-> "Ann",
     role |-> "seller", storeInfo |-> "AnnShop"],
    [id |-> 2, email |-> EmailB, password |-> HashPassword(Secret), name |-> "Bob",
     role |-> "user", storeInfo |-> ""] }

Tokens == {u.id : u \in SeedUsers} \cup {NoUser}

ProductIds == 1..MaxProducts

Uploads == {"none", "png", "txt"}

Init ==
  /\ router \in Routers
  /\ users = SeedUsers
  /\ products = {}
  /\ files = {}
  /\ nextFile = 1
  /\ nextProduct = 1
  /\ reqs = [r \in Reqs |-> Idle]
  /\ cart = <<>>
  /\ total = 0

Next ==
  \/ \E r \in Reqs, kind \in ProductKinds : Arrive(r, kind)
  \/ \E r \in Reqs, token \in Tokens : Protect(r, token)
  \/ \E r \in Reqs, upload \in Uploads : Upload(r, upload)
  \/ \E r \in Reqs, body \in PostBodies : PostHandler(r, body)
  \/ \E r \in Reqs, id \in ProductIds : PutHandler(r, id)
  \/ \E r \in Reqs, id \in ProductIds : DeleteHandler(r, id)
  \/ \E r \in Reqs, body \in PutBodies : DbWrite(r, body)
  \/ \E r \in Reqs, f \in 1..MaxFiles : Unlink(r, f)
  \/ \E r \in Reqs : MyStoreHandler(r)

Spec == Init /\ [][Next]_vars

(***************************************************************************)
(* The cart total.  A cart is a sequence of line items (product id,       *)
(* quantity); the cart routes (not among the sources) populate each       *)
(* item's product with the stored document before getTotal is called.     *)
(***************************************************************************)
Populate(items) ==
  [i \in DOMAIN items |->
     [product |-> CHOOSE p \in products : p.id = items[i].product,
      quantity |-> items[i].quantity]]

\* A total that counts each line once, whatever its quantity.
AddItemTotal_unit(acc, item) == acc + item.product.price

\* (total, item) => total + (item.product.price * item.quantity)
AddItemTotal(acc, item) == acc + (item.product.price * item.quantity)

RECURSIVE Reduce(_, _)
Reduce(items, acc) ==
  IF items = <<>> THEN acc
  ELSE Reduce(Tail(items), AddItemTotal(acc, Head(items)))

\* this.items.reduce(..., 0)
getTotal(items) == Reduce(items, 0)

GetTotal ==
  /\ total' = getTotal(Populate(cart))
  /\ UNCHANGED <<router, users, products, files, nextFile, nextProduct, reqs, cart>>

\* The write of a product update, as it changes the prices a cart refers to.
PriceUpdate(id, body) ==
  /\ UpdatePrice(body) # NaNPrice
  /\ products' = {IF p.id = id THEN ApplyUpdate(p, body, NoFile) ELSE p : p \in products}
  /\ UNCHANGED <<router, users, files, nextFile, nextProduct, reqs, cart, total>>

LineItems == [product : ProductIds, quantity : 1..MaxQty]

Carts == UNION {[1..n -> LineItems] : n \in 0..MaxItems}

CartBodies == {ProductBody("Cup", "red", "1"), ProductBody("Cup", "red", "2")}

\* A catalog of MaxProducts products of the seller, each created at price 1,
\* and any cart over them.
InitCart ==
  /\ router \in Routers
  /\ users = SeedUsers
  /\ products = {NewProduct(id, "Mug", "blue", Number("1"), imageUrl(id), UserById(1)) :
                   id \in ProductIds}
  /\ files = ProductIds
  /\ nextFile = MaxProducts + 1
  /\ nextProduct = MaxProducts + 1
  /\ reqs = [r \in Reqs |-> Idle]
  /\ cart \in Carts
  /\ total = 0

NextCart ==
  \/ GetTotal
  \/ \E id \in ProductIds, body \in CartBodies : PriceUpdate(id, body)

SpecCart == InitCart /\ [][NextCart]_vars

(***************************************************************************)
(* Properties of the product routes (Spec).                               *)
(***************************************************************************)
Owns(userId, id) == \E p \in products : p.id = id /\ p.seller = userId

OwnedByAnother(userId, id) == \E p \in products : p.id = id /\ p.seller # userId

Done(r) == reqs[r].pc = "done"

\* C1: when a user who is not the seller of an existing product asks to
\* update or delete it, the handler answers 403, issues no unlink, and leaves
\* every product record and every stored file as it was.
C1_NonOwnerRejected ==
  [][\A r \in Reqs, id \in ProductIds :
       ((PutHandler(r, id) \/ DeleteHandler(r, id)) /\ OwnedByAnother(reqs[r].user, id))
         => /\ reqs'[r].pc = "done"
            /\ reqs'[r].res.status = 403
            /\ reqs'[r].unlinks = {}
            /\ products' = products
            /\ files' = files]_vars

C1_Witness ==
  \E r \in Reqs :
    /\ reqs[r].kind \in {"put", "delete"}
    /\ Done(r)
    /\ reqs[r].res.status = 403
    /\ OwnedByAnother(reqs[r].user, reqs[r].id)

\* C2: an update asked by the product's seller is not rejected by the
\* ownership check, and its write answers 200 with the updated record, which
\* carries the supplied name, description and price and, if an image came
\* with the request, the reference of the new file.
C2_OwnerUpdateSucceeds ==
  [][/\ \A r \in Reqs, id \in ProductIds :
          (PutHandler(r, id) /\ Owns(reqs[r].user, id)) => reqs'[r].pc = "dbwrite"
     /\ \A r \in Reqs, body \in PutBodies :
          (DbWrite(r, body) /\ reqs[r].kind = "put" /\ Owns(reqs[r].user, reqs[r].id)
             /\ Number(body.price) # NaNPrice)
            => /\ reqs'[r].res.status = 200
               /\ \E p \in products' :
                    /\ reqs'[r].res.body = {p}
                    /\ p.id = reqs[r].id
                    /\ p.name = body.name
                    /\ p.description = body.description
                    /\ p.price = Number(body.price)
                    /\ reqs[r].file # NoFile => p.image = imageUrl(reqs[r].file)]_vars

\* C3: a delete asked by the product's seller is not rejected by the
\* ownership check; it unlinks the product's image, and its write answers 200
\* and leaves the product out of the catalog.
C3_OwnerDeleteSucceeds ==
  [][/\ \A r \in Reqs, id \in ProductIds :
          (DeleteHandler(r, id) /\ Owns(reqs[r].user, id))
            => /\ reqs'[r].pc = "dbwrite"
               /\ \A p \in findById(id) : imagePath(p.image) \in reqs'[r].unlinks
     /\ \A r \in Reqs, body \in PutBodies :
          (DbWrite(r, body) /\ reqs[r].kind = "delete")
            => /\ reqs'[r].res.status = 200
               /\ \A p \in listAll' : p.id # reqs[r].id]_vars

\* C4: once a create whose image was stored and whose save failed has been
\* answered and its cleanup has run, the file it stored is not in the upload
\* store and no product record refers to it.
C4_FailedCreateLeavesNoFile ==
  \A r \in Reqs :
    (/\ reqs[r].kind = "post"
     /\ Done(r)
     /\ reqs[r].res.status = 500
     /\ reqs[r].file # NoFile
     /\ reqs[r].unlinks = {})
      => /\ reqs[r].file \notin files
         /\ \A p \in products : p.image # imageUrl(reqs[r].file)

C4_Witness ==
  \E r \in Reqs :
    /\ reqs[r].kind = "post"
    /\ Done(r)
    /\ reqs[r].res.status = 500
    /\ reqs[r].file # NoFile
    /\ reqs[r].unlinks = {}

\* C5: every product record with an image reference refers to a file that
\* is in the upload store.
C5_NoDanglingReference ==
  \A p \in products : p.image # NoImage => imagePath(p.image) \in files

\* C6: a create asked by a user whose role is not seller is answered with an
\* authorization error and creates no product record.
C6_NonSellerCreateRejected ==
  [][\A r \in Reqs, body \in PostBodies :
       (PostHandler(r, body) /\ UserById(reqs[r].user).role # "seller")
         => /\ reqs'[r].res.status \in {401, 403}
            /\ products' = products]_vars

\* C10: GET /products/my-store answers the user with exactly the products
\* whose seller the user is.
C10_MyStoreIsOwnProducts ==
  [][\A r \in Reqs :
       MyStoreHandler(r)
         => /\ reqs'[r].res.status = 200
            /\ reqs'[r].res.body = {p \in products : p.seller = reqs[r].user}]_vars

C10_Witness ==
  \E r \in Reqs :
    /\ reqs[r].kind = "mystore"
    /\ Done(r)
    /\ reqs[r].res.status = 200
    /\ reqs[r].res.body # {}
    /\ reqs[r].res.body = {p \in products : p.seller = reqs[r].user}
    /\ \E p \in products : p.seller # reqs[r].user

\* C11: the seller of a product is the user who created it, and no step
\* changes it: a product keeps its id, seller and store snapshot for as long
\* as it exists, whatever the body of an update carries.
C11_SellerNeverChanges ==
  [][/\ \A r \in Reqs, body \in PostBodies :
          PostHandler(r, body)
            => \A q \in products' \ products : q.seller = reqs[r].user
     /\ \A p \in products :
          \A q \in products' :
            q.id = p.id => q.seller = p.seller /\ q.store = p.store]_vars

\* An answered update of a product by its seller, the record still the seller's.
C11_Witness ==
  \E r \in Reqs :
    /\ reqs[r].kind = "put"
    /\ Done(r)
    /\ reqs[r].res.status = 200
    /\ \E p \in reqs[r].res.body :
         /\ p \in products
         /\ p.name = "Cup"
         /\ p.seller = reqs[r].user

\* Every request has been answered and every unlink it issued has run.
AllComplete == \A r \in Reqs : Free(r)

ReferencedFiles == {imagePath(p.image) : p \in {q \in products : q.image # NoImage}}

\* C12: whenever no product request is in flight, every file in the upload
\* store is referenced by a product record.
C12_NoOrphanedFile == AllComplete => files \subseteq ReferencedFiles

\* C13: on every product route that takes a token (POST, PUT, DELETE and
\* my-store) token verification comes before the upload step and before the
\* handler: a request that has got as far as the upload, the handler or the
\* database write, or that holds a stored file, carries a valid token; a
\* request whose token is not valid is answered 401 on the spot, with no file
\* stored for it and no file or product record touched; and every step that
\* changes the upload store or the product records is taken by a request
\* whose token was verified.
Verified(r) == TokenValid(reqs[r].user)

C13_TokenVerifiedFirst ==
  /\ [](\A r \in Reqs :
          (\/ reqs[r].pc \in {"upload", "handler", "dbwrite"}
           \/ reqs[r].file # NoFile
           \/ reqs[r].unlinks # {}) => Verified(r))
  /\ [][/\ \A r \in Reqs, token \in Tokens :
              (Protect(r, token) /\ ~TokenValid(token))
                => /\ Done(r)' /\ reqs'[r].res.status = 401
                   /\ reqs'[r].file = NoFile
                   /\ files' = files /\ products' = products
        /\ (files' # files \/ products' # products)
             => \E r \in Reqs : reqs'[r] # reqs[r] /\ Verified(r)]_vars

\* A write request without a valid token has been answered 401 with no file
\* stored for it, while the catalog holds a product with an image that it could
\* have changed.
C13_Witness ==
  \E r \in Reqs :
    /\ reqs[r].kind \in {"post", "put", "delete"}
    /\ reqs[r].pc = "done" /\ reqs[r].res.status = 401
    /\ reqs[r].user = NoUser /\ reqs[r].file = NoFile
    /\ \E p \in products : p.image # NoImage /\ imagePath(p.image) \in files

(***************************************************************************)
(* Properties of the auth routes (SpecAuth).                              *)
(***************************************************************************)
Registered(email) == \E u \in users : u.email = toLowerCase(email)

\* The body passes the validations that come before the lookup.
WellFormed(body) ==
  /\ ~Falsy(body.email) /\ ~Falsy(body.password) /\ body.name # ""
  /\ emailRegexTest(body.email)
  /\ Len(body.password) >= MinPasswordLength

UserAlreadyExists == Response(400, "User already exists", {})

\* C7: a well-formed register request whose email is registered when the
\* handler looks it up is answered 400 'User already exists'; no step of a
\* register request whose email is registered creates a user; and no two
\* user records have the same email.
C7_DuplicateEmailConflict ==
  /\ [][/\ \A r \in Reqs, body \in RegisterBodies :
             (Register(r, body) /\ WellFormed(body) /\ Registered(body.email))
               => reqs'[r].pc = "done" /\ reqs'[r].res = UserAlreadyExists
        /\ \A r \in Reqs :
             (reqs'[r] # reqs[r] /\ reqs'[r].kind = "register"
                /\ Registered(reqs'[r].body.email))
               => users' = users]_vars
  /\ [](\A u, v \in users : u.email = v.email => u = v)

C7_Witness ==
  /\ \E r \in Reqs :
       /\ reqs[r].kind = "register"
       /\ Done(r)
       /\ reqs[r].res = UserAlreadyExists
       /\ \E u \in users : u.email = toLowerCase(reqs[r].body.email)
                             /\ u.email # reqs[r].body.email
  /\ Cardinality(users) = 2

IsAnsweredLogin(r) ==
  /\ reqs[r].kind = "login"
  /\ Done(r)
  /\ ~Falsy(reqs[r].body.email)
  /\ ~Falsy(reqs[r].body.password)

WrongPassword(r) ==
  \E u \in users : /\ u.email = toLowerCase(reqs[r].body.email)
                   /\ u.password # HashPassword(reqs[r].body.password)

InvalidCredentials == Response(400, "Invalid credentials", {})

PriceOf(id) == (CHOOSE p \in products : p.id = id).price

RECURSIVE SumOfLines(_)
SumOfLines(I) ==
  IF I = {} THEN 0
  ELSE LET i == CHOOSE x \in I : TRUE
       IN  PriceOf(cart[i].product) * cart[i].quantity + SumOfLines(I \ {i})

\* C9: getTotal gives the sum, over the line items of the cart, of the
\* product's stored price at the time of the call times the item's quantity,
\* and 0 for an empty cart.
C9_TotalIsSumOfCurrentPrices ==
  [][GetTotal => /\ total' = SumOfLines(DOMAIN cart)
                 /\ cart = <<>> => total' = 0]_vars

\* A total computed after a price in the cart went from 1 to 2.
C9_Witness ==
  /\ cart # <<>>
  /\ \E i \in DOMAIN cart : PriceOf(cart[i].product) = 2
  /\ total = SumOfLines(DOMAIN cart)

====
